---------------------------- MODULE Spec2Model ----------------------------
(***************************************************************************)
(* Model of rpc-server/src/server.rs: Server::new and Server::start.       *)
(*                                                                         *)
(* start builds two axum Routers (the http one carrying the node network   *)
(* interface, the rpc one carrying the RpcServer), joins them with         *)
(* MultiplexService::new(http, rpc_router), binds 0.0.0.0:port and serves  *)
(* the service on every accepted connection.  The serve call is given no   *)
(* graceful-shutdown future and no timeout layer, and `.await?` is the     *)
(* only way out of start before `Ok(())`.                                  *)
(*                                                                         *)
(* crate::service::MultiplexService and the route tables are not part of   *)
(* the file; their behaviour (ordered predicates, first match wins,        *)
(* not-found on mismatch, server-error on handler failure) is taken from   *)
(* the specification's Dispatcher section.                                 *)
(***************************************************************************)
EXTENDS Naturals, Sequences, FiniteSets

\* Number of connection slots the listener can have open at once.
MaxConns == 2

Conns == 1..MaxConns

\* Request targets a client can send.
Targets == {"/health", "/rpc", "/shared", "/unknown"}

StackNames == {"http", "rpc"}

NotFound == 404

ServerError == 500

HandlerOk == 200

\* Status the HTTP server answers malformed framing with.
BadRequest == 400

\* Body of a response this layer synthesizes itself.
EmptyBody == ""

\* No response on the wire.
NoResponse == [status |-> 0, body |-> "-"]

VARIABLES
    pc,          \* position of start: "init", "built", "serving", "bind_panic"
    server,      \* the Server struct: rpc_server and interface
    service,     \* the MultiplexService handed to serve: the registered stacks in order
    conn,        \* per connection slot: the connection handler's state
    listener,    \* the listening socket: "unbound", "listening", "failed"
    shutdown,    \* whether an external shutdown signal has been delivered to the process
    store        \* the state of the node behind each interface handle

vars == <<pc, server, service, listener, conn, shutdown, store>>

-----------------------------------------------------------------------------
(* Server::new *)

\* The shared handle the caller passes in as Arc<NodeNetworkInterface<S>>.
NodeInterface == "node_network_interface"

\* RpcServer::new(&config, Arc::clone(&interface)): a handle built around the same interface.
RpcServerNew(interface) == [kind |-> "rpc_server", interface |-> interface]

ServerNew(interface) ==
    [rpc_server |-> RpcServerNew(interface), interface |-> interface]

-----------------------------------------------------------------------------
(* The two routers and the multiplexed service built by start *)

\* Route table of rpc::routes::network::init().
RpcRoutes == {"/rpc", "/shared"}

\* Route table of http::routes::network::init::<S>().
HttpRoutes == {"/health", "/shared"}

\* Router::new().merge(rpc::routes::network::init()).layer(Extension(self.rpc_server.clone()))
RpcRouter(s) == [name |-> "rpc", routes |-> RpcRoutes, context |-> s.rpc_server]

\* Router::new().merge(http::routes::network::init::<S>()).layer(Extension(self.interface.clone()))
HttpRouter(s) == [name |-> "http", routes |-> HttpRoutes, context |-> s.interface]

\* MultiplexService::new(a, b): the stacks in registration order.
MultiplexServiceNew(a, b) == <<a, b>>

\* A plausible slip at the call site: the routers passed in the other order.
BuildServiceSwapped(s) == MultiplexServiceNew(RpcRouter(s), HttpRouter(s))

\* A plausible slip at the call site: the same router passed twice.
BuildServiceSameRouterTwice(s) == MultiplexServiceNew(HttpRouter(s), HttpRouter(s))

\* A start that would leave the rpc router out of the service.
BuildServiceHttpOnly(s) == <<HttpRouter(s)>>

\* let service = MultiplexService::new(http, rpc_router);
BuildService(s) == MultiplexServiceNew(HttpRouter(s), RpcRouter(s))

-----------------------------------------------------------------------------
(* Dispatcher: predicate matching and outcome normalisation *)

\* A stack's predicate: the request target is one of its routes.
Matches(stack, target) == target \in stack.routes

\* Indices of the registered stacks whose predicate matches.
MatchingIdx(svc, target) == {i \in 1..Len(svc) : Matches(svc[i], target)}

\* First-registered match wins; 0 when no stack matches.
SelectStack(svc, target) ==
    IF MatchingIdx(svc, target) = {} THEN 0
    ELSE CHOOSE i \in MatchingIdx(svc, target) :
            \A j \in MatchingIdx(svc, target) : i <= j

-----------------------------------------------------------------------------
(* Connection slots *)

FreshConn ==
    [st       |-> "free",
     pending  |-> FALSE,
     req      |-> "-",
     chosen   |-> "-",
     outcome  |-> "-",
     resp     |-> 0,
     body     |-> "-",
     sent     |-> NoResponse,
     invoked  |-> [s \in StackNames |-> 0],
     written  |-> 0,
     inflight |-> 0,
     overdue  |-> FALSE,
     reason   |-> "-"]

OpenStates == {"reading", "matching", "invoking", "writing"}

Init ==
    /\ pc = "init"
    /\ server = ServerNew(NodeInterface)
    /\ service = <<>>
    /\ listener = "unbound"
    /\ conn = [c \in Conns |-> FreshConn]
    /\ shutdown = FALSE
    /\ store = [o \in {NodeInterface} |-> 0]

-----------------------------------------------------------------------------
(* Server::start *)

\* Lines 35-46: the routers, the address and the multiplexed service are built.
StartBuild ==
    /\ pc = "init"
    /\ service' = BuildService(server)
    /\ pc' = "built"
    /\ UNCHANGED <<server, listener, conn, shutdown, store>>

\* A slip that would carry on serving although the bind failed.
AfterBindIgnoringFailure(ok) == "serving"

\* axum::Server::bind(&http_address) panics when the address cannot be bound;
\* otherwise control reaches .serve(..).await.
AfterBind(ok) == IF ok THEN "serving" ELSE "bind_panic"

Bind ==
    /\ pc = "built"
    /\ \E ok \in BOOLEAN :
          /\ listener' = IF ok THEN "listening" ELSE "failed"
          /\ pc' = AfterBind(ok)
    /\ UNCHANGED <<server, service, conn, shutdown, store>>

\* Line 53, Ok(()): reached only when the future returned by serve resolves to Ok.
\* Without a shutdown future the accept loop has no such exit, so no step leads here.
StartReturnedOk == pc = "returned_ok"

\* An external shutdown signal reaches the process.  serve is given no
\* graceful-shutdown future, so nothing in start observes it.
ShutdownSignal ==
    /\ ~shutdown
    /\ shutdown' = TRUE
    /\ UNCHANGED <<pc, server, service, listener, conn, store>>

-----------------------------------------------------------------------------
(* Listener: the accept loop of serve *)

\* A client's connection attempt lands in the listening socket's backlog.
ClientConnect(c) ==
    /\ listener = "listening"
    /\ conn[c].st = "free"
    /\ conn' = [conn EXCEPT ![c].st = "queued"]
    /\ UNCHANGED <<pc, server, service, listener, shutdown, store>>

\* An accept loop that would wait for the open connection to end before it accepts again.
AcceptOneAtATime(c) ==
    /\ pc = "serving"
    /\ conn[c].st = "queued"
    /\ \A d \in Conns : conn[d].st \in {"free", "queued", "closed"}
    /\ conn' = [conn EXCEPT ![c].st = "reading"]
    /\ UNCHANGED <<pc, server, service, listener, shutdown, store>>

\* An accept loop that would give up once some connection has ended on an error.
AcceptUntilFirstError(c) ==
    /\ pc = "serving"
    /\ conn[c].st = "queued"
    /\ \A d \in Conns : conn[d].st # "closed"
    /\ conn' = [conn EXCEPT ![c].st = "reading"]
    /\ UNCHANGED <<pc, server, service, listener, shutdown, store>>

\* serve accepts a queued connection and hands it to a new connection task.
Accept(c) ==
    /\ pc = "serving"
    /\ conn[c].st = "queued"
    /\ conn' = [conn EXCEPT ![c].st = "reading"]
    /\ UNCHANGED <<pc, server, service, listener, shutdown, store>>

-----------------------------------------------------------------------------
(* Connection handler: one task per accepted connection *)

Closed(reason) == [FreshConn EXCEPT !.st = "closed", !.reason = reason]

\* The client puts a request on the wire; it may do so while an earlier one is in flight.
ClientSend(c) ==
    /\ conn[c].st \in OpenStates
    /\ ~conn[c].pending
    /\ conn' = [conn EXCEPT ![c].pending = TRUE]
    /\ UNCHANGED <<pc, server, service, listener, shutdown, store>>

\* A connection task that would start on the next request while one is in flight.
CanReadWhileBusy(c) ==
    /\ conn[c].pending
    /\ conn[c].st \in {"reading", "invoking", "writing"}

\* The connection task reads the next request only when it is idle.
CanRead(c) ==
    /\ conn[c].pending
    /\ conn[c].st = "reading"

ReadRequest(c) ==
    /\ pc = "serving"
    /\ CanRead(c)
    /\ \E t \in Targets :
          conn' = [conn EXCEPT ![c] =
                     [@ EXCEPT !.st = "matching", !.pending = FALSE, !.req = t,
                               !.outcome = "-", !.resp = 0,
                               !.body = "-", !.sent = NoResponse,
                               !.invoked = [s \in StackNames |-> 0],
                               !.written = 0, !.inflight = @ + 1]]
    /\ UNCHANGED <<pc, server, service, listener, shutdown, store>>

\* A connection task that would wipe the node's state when a read fails.
ReadErrorResettingContext(c) ==
    /\ pc = "serving"
    /\ conn[c].st = "reading"
    /\ conn' = [conn EXCEPT ![c] = Closed("read_error")]
    /\ store' = [o \in DOMAIN store |-> 0]
    /\ UNCHANGED <<pc, server, service, listener, shutdown>>

\* Read failure or end of stream while waiting for a request: the task ends.
ReadError(c) ==
    /\ pc = "serving"
    /\ conn[c].st = "reading"
    /\ conn' = [conn EXCEPT ![c] = Closed("read_error")]
    /\ UNCHANGED <<pc, server, service, listener, shutdown, store>>

\* The connection after the bytes on the wire failed to parse as a request: the
\* server may get a bad-request response out before it hangs up, or not.
AfterParseError(answered) ==
    [Closed("parse_error") EXCEPT
        !.sent = IF answered THEN [status |-> BadRequest, body |-> EmptyBody]
                             ELSE NoResponse]

\* Malformed framing: the unit never becomes a request and no stack sees it.
MalformedRequest(c) ==
    /\ pc = "serving"
    /\ conn[c].st = "reading"
    /\ conn[c].pending
    /\ \E answered \in BOOLEAN :
          conn' = [conn EXCEPT ![c] = AfterParseError(answered)]
    /\ UNCHANGED <<pc, server, service, listener, shutdown, store>>

\* The chosen stack's handler is invoked on the request.
Invoke(k, stack) ==
    [k EXCEPT !.st = "invoking", !.chosen = stack.name, !.invoked[stack.name] = @ + 1]

\* A dispatcher that would hand every unmatched request to the first stack.
AfterMatchDefaultingToFirst(svc, k) ==
    IF SelectStack(svc, k.req) = 0
    THEN Invoke(k, svc[1])
    ELSE Invoke(k, svc[SelectStack(svc, k.req)])

\* A dispatcher that would keep routing a connection to the stack that served
\* its previous request.
AfterMatchSticky(svc, k) ==
    IF k.chosen \in StackNames
    THEN Invoke(k, IF k.chosen = svc[1].name THEN svc[1] ELSE svc[2])
    ELSE IF SelectStack(svc, k.req) = 0
         THEN [k EXCEPT !.st = "writing", !.chosen = "-", !.outcome = "Mismatch",
                        !.resp = NotFound, !.body = EmptyBody]
         ELSE Invoke(k, svc[SelectStack(svc, k.req)])

\* Dispatcher, matching step: the first registered stack whose predicate holds is
\* invoked; with no match a not-found response is synthesized and nothing is invoked.
AfterMatch(svc, k) ==
    IF SelectStack(svc, k.req) = 0
    THEN [k EXCEPT !.st = "writing", !.chosen = "-", !.outcome = "Mismatch",
                   !.resp = NotFound, !.body = EmptyBody]
    ELSE Invoke(k, svc[SelectStack(svc, k.req)])

Match(c) ==
    /\ pc = "serving"
    /\ conn[c].st = "matching"
    /\ conn' = [conn EXCEPT ![c] = AfterMatch(service, conn[c])]
    /\ UNCHANGED <<pc, server, service, listener, shutdown, store>>

\* Dispatcher, normalisation of the handler's result.
DispatchResponse(ok, handlerResp) == IF ok THEN handlerResp ELSE ServerError

\* A dispatcher that would finish a failed invocation without classifying it.
DispatchOutcomeLosingFailure(ok) == IF ok THEN "Success" ELSE "-"

DispatchOutcome(ok) == IF ok THEN "Success" ELSE "HandlerFailure"

\* The body a stack's handler produces for a target; opaque to this layer.
HandlerBody(name, target) == IF name = "http" THEN "rest-body" ELSE "rpc-body"

\* Dispatcher, body of the normalised response: the handler's own on success.
DispatchBody(ok, handlerBody) == IF ok THEN handlerBody ELSE EmptyBody

\* The registered stack of the given name.
StackNamed(svc, n) == svc[CHOOSE i \in 1..Len(svc) : svc[i].name = n]

\* The node interface a stack's context reaches: the http router is layered with
\* the interface itself, the rpc router with the rpc server that holds it.
InterfaceOf(stack) ==
    IF stack.name = "rpc" THEN stack.context.interface ELSE stack.context

\* What a stack's handler may do to its context while it runs: nothing, or a
\* change of the node behind the interface its context reaches.
HandlerEffect(st, stack, writes) ==
    IF writes THEN [st EXCEPT ![InterfaceOf(stack)] = 1 - @] ELSE st

\* Time passes: the handler of connection c has been running for longer than any
\* deadline an operator could have meant. Nothing in start arms a timer, so the
\* handler just goes on running, overdue, until it returns.
DeadlineElapses(c) ==
    /\ pc = "serving"
    /\ conn[c].st = "invoking"
    /\ ~conn[c].overdue
    /\ conn' = [conn EXCEPT ![c].overdue = TRUE]
    /\ UNCHANGED <<pc, server, service, listener, shutdown, store>>

\* The chosen stack's handler finishes, with a response or with a failure.
HandlerReturn(c) ==
    /\ pc = "serving"
    /\ conn[c].st = "invoking"
    /\ \E ok \in BOOLEAN :
          conn' = [conn EXCEPT ![c] =
                     [@ EXCEPT !.st = "writing", !.overdue = FALSE,
                               !.outcome = DispatchOutcome(ok),
                               !.resp = DispatchResponse(ok, HandlerOk),
                               !.body = DispatchBody(ok, HandlerBody(conn[c].chosen,
                                                                       conn[c].req))]]
    /\ \E writes \in BOOLEAN :
          store' = HandlerEffect(store, StackNamed(service, conn[c].chosen), writes)
    /\ UNCHANGED <<pc, server, service, listener, shutdown>>

\* A connection task that would hang up after writing a server-error response.
AfterWriteClosingOnServerError(k) ==
    IF k.resp = ServerError
    THEN [k EXCEPT !.st = "closed", !.written = @ + 1, !.inflight = @ - 1]
    ELSE [k EXCEPT !.st = "reading", !.written = @ + 1, !.inflight = @ - 1]

\* A connection task that would skip the write for a request no stack matched.
AfterWriteDroppingMismatch(k) ==
    IF k.outcome = "Mismatch"
    THEN [k EXCEPT !.st = "reading", !.inflight = @ - 1]
    ELSE [k EXCEPT !.st = "reading", !.written = @ + 1, !.inflight = @ - 1]

\* A connection task that would put its own status line on every response.
AfterWriteRewritingStatus(k) ==
    [k EXCEPT !.st = "reading", !.written = @ + 1, !.inflight = @ - 1,
              !.sent = [status |-> IF k.outcome = "Success" THEN ServerError ELSE k.resp,
                        body |-> k.body]]

\* The response is written in full, as the service returned it; the task loops
\* back to reading.
AfterWrite(k) ==
    [k EXCEPT !.st = "reading", !.written = @ + 1, !.inflight = @ - 1,
              !.sent = [status |-> k.resp, body |-> k.body]]

\* A server that would run all connections on one task: nothing is written
\* while some handler is still running.
WriteResponseAfterAllHandlers(c) ==
    /\ pc = "serving"
    /\ conn[c].st = "writing"
    /\ \A d \in Conns : conn[d].st # "invoking"
    /\ conn' = [conn EXCEPT ![c] = AfterWrite(conn[c])]
    /\ UNCHANGED <<pc, server, service, listener, shutdown, store>>

WriteResponse(c) ==
    /\ pc = "serving"
    /\ conn[c].st = "writing"
    /\ conn' = [conn EXCEPT ![c] = AfterWrite(conn[c])]
    /\ UNCHANGED <<pc, server, service, listener, shutdown, store>>

\* A write failure that would take every connection down with it.
WriteErrorTearingDownAll(c) ==
    /\ pc = "serving"
    /\ conn[c].st = "writing"
    /\ conn' = [d \in Conns |->
                  IF conn[d].st \in OpenStates THEN Closed("write_error") ELSE conn[d]]
    /\ UNCHANGED <<pc, server, service, listener, shutdown, store>>

\* The write fails: the task ends without a response on the wire.
WriteError(c) ==
    /\ pc = "serving"
    /\ conn[c].st = "writing"
    /\ conn' = [conn EXCEPT ![c] = Closed("write_error")]
    /\ UNCHANGED <<pc, server, service, listener, shutdown, store>>

\* A server that would put an ended connection back to reading.
ReapReopening(c) ==
    /\ conn[c].st = "closed"
    /\ conn' = [conn EXCEPT ![c] = [FreshConn EXCEPT !.st = "reading"]]
    /\ UNCHANGED <<pc, server, service, listener, shutdown, store>>

\* The ended task and its socket are dropped; the slot can hold a new connection.
Reap(c) ==
    /\ conn[c].st = "closed"
    /\ conn' = [conn EXCEPT ![c] = FreshConn]
    /\ UNCHANGED <<pc, server, service, listener, shutdown, store>>

-----------------------------------------------------------------------------

Next ==
    \/ StartBuild
    \/ Bind
    \/ ShutdownSignal
    \/ \E c \in Conns :
          \/ ClientConnect(c)
          \/ Accept(c)
          \/ ClientSend(c)
          \/ ReadRequest(c)
          \/ ReadError(c)
          \/ MalformedRequest(c)
          \/ Match(c)
          \/ DeadlineElapses(c)
          \/ HandlerReturn(c)
          \/ WriteResponse(c)
          \/ WriteError(c)
          \/ Reap(c)

Spec == Init /\ [][Next]_vars

\* The runtime polls every ready task: start itself, the accept loop and each
\* connection task make progress whenever they can, and a handler that was
\* invoked eventually returns.  Clients and the network are under no obligation.
Fairness ==
    /\ WF_vars(StartBuild)
    /\ WF_vars(Bind)
    /\ \A c \in Conns :
          /\ WF_vars(Accept(c))
          /\ WF_vars(ReadRequest(c))
          /\ WF_vars(Match(c))
          /\ WF_vars(HandlerReturn(c))
          /\ WF_vars(WriteResponse(c))

FairSpec == Spec /\ Fairness

-----------------------------------------------------------------------------
(* Properties *)

\* Stack A (REST-style) and Stack B (RPC-style) as start means to register them.
StackA == HttpRouter(server)

StackB == RpcRouter(server)

\* The dispatcher has decided the request connection c is working on.
Decided(c) == conn[c].req # "-" /\ conn[c].st \in {"invoking", "writing", "reading"}

\* What has been invoked for the request of connection c, as a set of stack names.
InvokedFor(c) == {s \in StackNames : conn[c].invoked[s] > 0}

\* C1: a request whose target matches the predicate of exactly one of the two
\* registered stacks is handed to that stack exactly once and never to the other,
\* and no stack is ever invoked on a request its predicate does not match.
C1_ExactlyTheMatchingStack ==
    \A c \in Conns :
        /\ Decided(c) =>
              /\ (Matches(StackA, conn[c].req) /\ ~Matches(StackB, conn[c].req))
                    => (conn[c].invoked["http"] = 1 /\ conn[c].invoked["rpc"] = 0)
              /\ (Matches(StackB, conn[c].req) /\ ~Matches(StackA, conn[c].req))
                    => (conn[c].invoked["rpc"] = 1 /\ conn[c].invoked["http"] = 0)
        /\ (conn[c].invoked["http"] > 0 => Matches(StackA, conn[c].req))
        /\ (conn[c].invoked["rpc"] > 0 => Matches(StackB, conn[c].req))

\* Both single-match cases are served at once: one connection on the REST-only
\* target with the http stack invoked, another on the RPC-only target with the rpc one.
C1_Witness ==
    \E c, d \in Conns :
        /\ conn[c].req = "/health" /\ conn[c].st = "writing" /\ conn[c].invoked["http"] = 1
        /\ conn[d].req = "/rpc" /\ conn[d].st = "writing" /\ conn[d].invoked["rpc"] = 1

\* C2: a request matching neither stack's predicate is answered with the
\* not-found response, no handler is invoked for it, and the outcome is an
\* ordinary completion: the connection goes on to write the response and start
\* keeps serving.
C2_MismatchIsNotFound ==
    \A c \in Conns :
        (Decided(c) /\ ~Matches(StackA, conn[c].req) /\ ~Matches(StackB, conn[c].req))
            => /\ conn[c].outcome = "Mismatch"
               /\ conn[c].resp = NotFound
               /\ InvokedFor(c) = {}
               /\ pc = "serving"

\* An unmatched request has been answered and its connection is reading again.
C2_Witness ==
    \E c \in Conns :
        /\ conn[c].req = "/unknown" /\ conn[c].st = "reading"
        /\ conn[c].written = 1 /\ conn[c].resp = NotFound

\* The step in which the handler invoked for connection c fails.
HandlerFails(c) == conn[c].st = "invoking" /\ conn'[c].outcome = "HandlerFailure"

\* The step in which connection c's response goes out on the wire.
Writes(c) == conn[c].st = "writing" /\ conn'[c].written = conn[c].written + 1

\* C3: when the matched stack's handler fails, dispatch returns the server-error
\* response, the failure does not reach the caller of dispatch (the connection task
\* goes on to write, start keeps serving), and the connection stays alive: once the
\* response is written the task is reading again and reads the next request
\* whenever one is on the wire.
C3_HandlerFailureIsServerError ==
    /\ [](\A c \in Conns :
            /\ conn[c].outcome = "HandlerFailure"
                  => (conn[c].resp = ServerError /\ conn[c].st \in {"writing", "reading"})
            /\ (conn[c].outcome = "HandlerFailure" /\ conn[c].st = "reading"
                   /\ conn[c].pending) => ENABLED ReadRequest(c))
    /\ [][\A c \in Conns :
            /\ HandlerFails(c) => (conn'[c].st = "writing" /\ pc' = "serving")
            /\ (Writes(c) /\ conn[c].outcome = "HandlerFailure")
                  => (conn'[c].st = "reading" /\ pc' = "serving")]_vars

\* A handler failure has been answered with the server-error response and the
\* connection is reading again, the client's next request already on the wire.
C3_Witness ==
    \E c \in Conns :
        /\ conn[c].outcome = "HandlerFailure" /\ conn[c].resp = ServerError
        /\ conn[c].written = 1 /\ conn[c].st = "reading" /\ conn[c].pending

\* C4: a request whose cycle is over (the task is back to reading) has had exactly
\* one response written, whatever its outcome; a request still in flight has had
\* none, and no request ever has more than one.
C4_OneResponsePerRequest ==
    \A c \in Conns :
        /\ conn[c].written <= 1
        /\ (conn[c].st = "reading" /\ conn[c].req # "-") => conn[c].written = 1
        /\ conn[c].st \in {"matching", "invoking", "writing"} => conn[c].written = 0

\* Completed requests of all three outcomes, each with its single response.
C4_Witness ==
    /\ \E c \in Conns : conn[c].st = "reading" /\ conn[c].outcome = "Mismatch"
                          /\ conn[c].written = 1
    /\ \E c \in Conns : conn[c].st = "reading" /\ conn[c].written = 1
                          /\ conn[c].outcome \in {"Success", "HandlerFailure"}

\* C5: with every connection of the model open at once, under fair scheduling each
\* queued connection is accepted, each request on the wire is read and each request
\* read is answered with exactly one response, whatever the interleaving; the only
\* way out is a read or write error on that very connection.
C5_EveryConnectionAnswered ==
    /\ [](\A c \in Conns : conn[c].written <= 1)
    /\ \A c \in Conns :
          /\ (conn[c].st = "queued") ~> (conn[c].st = "reading")
          /\ (conn[c].st \in OpenStates /\ conn[c].pending)
                ~> (conn[c].st = "matching" \/ conn[c].st = "closed")
          /\ (conn[c].st = "matching")
                ~> ((conn[c].st = "reading" /\ conn[c].written = 1) \/ conn[c].st = "closed")

\* Every connection slot holds a connection whose request has got its one response.
C5_Witness ==
    \A c \in Conns : conn[c].st = "reading" /\ conn[c].req # "-" /\ conn[c].written = 1

\* C6: a connection has at most one request in flight: the next request is not read
\* while the current one is being matched, handled or written, so the count of
\* requests read and not yet answered is 1 in those states and 0 otherwise.
C6_OneRequestInFlight ==
    \A c \in Conns :
        /\ conn[c].inflight <= 1
        /\ conn[c].st \in {"matching", "invoking", "writing"} <=> conn[c].inflight = 1

\* The client has already sent the next request while the current one is with its handler.
C6_Witness ==
    \E c \in Conns : conn[c].st = "invoking" /\ conn[c].pending

\* The step in which the listener accepts connection c.
Accepts(c) == conn[c].st = "queued" /\ conn'[c].st = "reading"

\* C7: after a shutdown signal the listener accepts no new connection, while the
\* connections already accepted still get their responses.
C7_NoAcceptAfterShutdown ==
    /\ [][shutdown => \A c \in Conns : ~Accepts(c)]_vars
    /\ \A c \in Conns :
          (shutdown /\ conn[c].st = "writing")
             ~> ((conn[c].st = "reading" /\ conn[c].written = 1) \/ conn[c].st = "closed")

\* The lifecycle of the shutdown coordinator as far as start has one.
Lifecycle == IF StartReturnedOk THEN "Stopped" ELSE "Running"

\* C8: the lifecycle only moves forward, and after a shutdown signal to the
\* serving server start eventually returns normally.
C8_ShutdownReachesStopped ==
    /\ [][Lifecycle = "Stopped" => Lifecycle' = "Stopped"]_vars
    /\ (shutdown /\ pc = "serving") ~> StartReturnedOk

\* Some connection has ended on an error.
SomeConnectionFailed == \E c \in Conns : conn[c].st = "closed"

FailsOn(c) ==
    \/ HandlerFails(c)
    \/ conn[c].st \in OpenStates /\ conn'[c].st = "closed"

\* Connection d can take its next step, whatever the others are doing.
CanProceed(d) ==
    /\ conn[d].st = "queued" => ENABLED Accept(d)
    /\ (conn[d].st = "reading" /\ conn[d].pending) => ENABLED ReadRequest(d)
    /\ conn[d].st = "matching" => ENABLED Match(d)
    /\ conn[d].st = "invoking" => ENABLED HandlerReturn(d)
    /\ conn[d].st = "writing" => ENABLED WriteResponse(d)

\* C10: a failure on one connection leaves start, the listener, the registered
\* service and every other connection exactly as they were, and with a failed
\* connection around every other connection can still be accepted and go through
\* its next step.
C10_FailureIsolation ==
    /\ [][\A c \in Conns :
            FailsOn(c) =>
               /\ pc' = pc /\ listener' = listener /\ service' = service
               /\ \A d \in Conns \ {c} : conn'[d] = conn[d]]_vars
    /\ [](\A c \in Conns :
            (conn[c].st = "closed" \/ conn[c].outcome = "HandlerFailure")
               => \A d \in Conns \ {c} : CanProceed(d))

\* One connection has ended on a write error while another has its answer.
C10_Witness ==
    \E c, d \in Conns :
        /\ conn[c].st = "closed" /\ conn[c].reason = "write_error"
        /\ conn[d].st = "reading" /\ conn[d].written = 1

\* C11: a request both stacks' predicates match is handled by the first-registered
\* stack, the http router, and the rpc router is never invoked for it; the choice
\* is a function of the registered stacks and the request: two dispatches of the
\* same target, on whatever connections, select the same stack.
C11_FirstRegisteredWins ==
    /\ \A c \in Conns :
          (Decided(c) /\ Matches(StackA, conn[c].req) /\ Matches(StackB, conn[c].req))
             => /\ conn[c].chosen = "http"
                /\ conn[c].invoked["http"] = 1
                /\ conn[c].invoked["rpc"] = 0
    /\ \A c, d \in Conns :
          (Decided(c) /\ Decided(d) /\ conn[c].req = conn[d].req)
             => conn[c].chosen = conn[d].chosen

\* Two connections have each had the doubly-matched target dispatched to the http stack.
C11_Witness ==
    \E c, d \in Conns :
        /\ c # d
        /\ conn[c].req = "/shared" /\ conn[c].chosen = "http" /\ conn[c].st = "writing"
        /\ conn[d].req = "/shared" /\ conn[d].chosen = "http" /\ conn[d].written = 1

\* What the handler chosen for connection c's request produces on success.
HandlerResponseFor(c) ==
    [status |-> HandlerOk, body |-> HandlerBody(conn[c].chosen, conn[c].req)]

CloseReasons == {"read_error", "parse_error", "write_error"}

\* Nothing of the dispatch cycle can run on connection c.
NothingRuns(c) ==
    /\ ~ENABLED ReadRequest(c)
    /\ ~ENABLED Match(c)
    /\ ~ENABLED HandlerReturn(c)
    /\ ~ENABLED WriteResponse(c)

\* A failure takes the connection to Close in one step, from wherever it was.
ErrorsGoDirectlyToClose ==
    [][\A c \in Conns :
          /\ (conn[c].st = "reading" /\ conn'[c].st # "reading")
                => conn'[c].st \in {"matching", "closed"}
          /\ (conn[c].st = "writing" /\ conn'[c].st # "writing")
                => conn'[c].st \in {"reading", "closed"}]_vars

\* Close is left only when the ended connection is dropped.
CloseIsNeverLeft ==
    [][\A c \in Conns :
          conn[c].st = "closed" => conn'[c].st \in {"closed", "free"}]_vars

Outcomes == {"Success", "Mismatch", "HandlerFailure"}

\* Where the dispatch of connection c's current request stands.
DispatchState(c) ==
    CASE conn[c].st = "matching" -> "Matching"
      [] conn[c].st = "invoking" -> "Invoking"
      [] conn[c].st = "writing"  -> "Completed"
      [] OTHER                   -> "Idle"

\* One step of the dispatch of connection c's request, as a pair of states.
DispatchStep(c) == <<DispatchState(c), DispatchState(c)'>>

\* C13: the dispatch of a request goes Idle, Matching, then either Completed
\* with Mismatch or Invoking and then Completed with Success or HandlerFailure;
\* no state is re-entered within one dispatch, a completed dispatch keeps its
\* outcome, and a dispatch that has started always reaches Completed.
C13_DispatchStateMachine ==
    /\ [](\A c \in Conns :
            /\ DispatchState(c) = "Completed" => conn[c].outcome \in Outcomes
            /\ DispatchState(c) \in {"Matching", "Invoking"} => conn[c].outcome = "-")
    /\ [][\A c \in Conns :
            /\ DispatchStep(c) \in
                  {<<"Idle", "Idle">>, <<"Idle", "Matching">>,
                   <<"Matching", "Matching">>, <<"Matching", "Invoking">>,
                   <<"Matching", "Completed">>,
                   <<"Invoking", "Invoking">>, <<"Invoking", "Completed">>,
                   <<"Completed", "Completed">>, <<"Completed", "Idle">>}
            /\ DispatchStep(c) = <<"Matching", "Completed">>
                  => conn'[c].outcome = "Mismatch"
            /\ DispatchStep(c) = <<"Invoking", "Completed">>
                  => conn'[c].outcome \in {"Success", "HandlerFailure"}
            /\ DispatchStep(c) = <<"Completed", "Completed">>
                  => conn'[c].outcome = conn[c].outcome]_vars
    /\ \A c \in Conns :
          (DispatchState(c) = "Matching") ~> (DispatchState(c) = "Completed")

\* Two dispatches stand completed at once, one by a mismatch and one by a
\* handler failure, so both branches of the machine were taken.
C13_Witness ==
    \E c, d \in Conns :
        /\ DispatchState(c) = "Completed" /\ conn[c].outcome = "Mismatch"
        /\ DispatchState(d) = "Completed" /\ conn[d].outcome = "HandlerFailure"

\* C14: once the deadline of a request has passed, its dispatch is aborted: the
\* handler's result is never taken, no response follows, the connection goes to
\* Close, and no other connection is touched by the cancellation.
C14_TimeoutAbortsAndCloses ==
    /\ [][\A c \in Conns :
            conn[c].overdue => conn'[c].st \in {"invoking", "closed"}]_vars
    /\ \A c \in Conns : conn[c].overdue ~> (conn[c].st = "closed")
    /\ [][\A c, d \in Conns :
            (c # d /\ conn[c].overdue /\ conn'[c].st = "closed")
               => conn'[d] = conn[d]]_vars

\* The name of the stack the dispatcher selects for a target, "-" for none.
SelectedName(svc, target) ==
    IF SelectStack(svc, target) = 0 THEN "-" ELSE svc[SelectStack(svc, target)].name

\* The matching step of connection c's current request.
Matched(c) == conn[c].st = "matching" /\ conn'[c].st # "matching"

\* C19: the stack is selected for each request from that request alone: whatever
\* stack served the previous request on the connection, the matching step picks
\* the stack the registered predicates give for the new request, and only that
\* stack is invoked for it.
C19_SelectionPerRequest ==
    /\ [][\A c \in Conns :
            Matched(c) =>
               /\ conn'[c].chosen = SelectedName(service, conn[c].req)
               /\ \A n \in StackNames :
                     conn'[c].invoked[n] = IF n = conn'[c].chosen THEN 1 ELSE 0]_vars
    /\ [](\A c \in Conns :
            Decided(c) => conn[c].chosen = SelectedName(service, conn[c].req))

\* On one connection the previous request went to the http stack and the one
\* now being matched is for the rpc stack alone, while on another connection
\* the order is the reverse.
C19_Witness ==
    \E c, d \in Conns :
        /\ conn[c].st = "matching" /\ conn[c].chosen = "http" /\ conn[c].req = "/rpc"
        /\ conn[d].st = "matching" /\ conn[d].chosen = "rpc" /\ conn[d].req = "/health"

\* What a stack's handlers see through the stack's shared context.
ContextView(stack) == store[InterfaceOf(stack)]

\* The step in which the handler running for connection c finishes.
HandlerStep(c) == conn[c].st = "invoking" /\ conn'[c].st = "writing"

\* Once built, the registered stacks and the handles they hold stay as they are.
ServiceIsFixed == [][pc # "init" => (service' = service /\ server' = server)]_vars

C18_TwoStacksInFixedOrder ==
    pc # "init" =>
        /\ Len(service) = 2
        /\ service[1].name = "http" /\ service[1].routes = HttpRoutes
        /\ service[1].context = NodeInterface
        /\ service[2].name = "rpc" /\ service[2].routes = RpcRoutes
        /\ service[2].context = RpcServerNew(NodeInterface)
        /\ service = <<StackA, StackB>>

\* The server has been serving for a while: one connection has had a request
\* answered by the rpc stack, another by the http stack, and a signal has come.
C18_Witness ==
    /\ pc = "serving"
    /\ shutdown
    /\ \E c, d \in Conns :
          /\ conn[c].written = 1 /\ conn[c].chosen = "rpc"
          /\ conn[d].written = 1 /\ conn[d].chosen = "http"

\* C16: while the handler running for one connection has not returned, however
\* long that lasts, the listener is still listening and takes new connections,
\* and every other connection can be accepted, read, matched, handled and
\* answered as if the first were not there.
C16_HangingHandlerBlocksNobody ==
    \A c \in Conns :
        conn[c].st = "invoking" =>
            /\ pc = "serving" /\ listener = "listening"
            /\ \A d \in Conns \ {c} :
                  /\ conn[d].st = "free" => ENABLED ClientConnect(d)
                  /\ CanProceed(d)

\* A handler has been running past any deadline on one connection, and another
\* connection, routed to the same stack, already has its result to write.
C16_Witness ==
    \E c, d \in Conns :
        /\ conn[c].st = "invoking" /\ conn[c].overdue
        /\ conn[d].st = "writing" /\ conn[d].chosen = conn[c].chosen

=============================================================================
